---- MODULE Spec2Model ----
(***************************************************************************)
(* A model of the configuration store of claude-dashboard                  *)
(* (config/claude_config.py: ClaudeConfig and ConfigWatcher) and of its    *)
(* front-matter codec (utils/frontmatter.py).                              *)
(***************************************************************************)
EXTENDS Integers, Sequences, FiniteSets, TLC

(***************************************************************************)
(* Bounds of the model.                                                    *)
(***************************************************************************)
\* the longest document, in lines, that the codec is applied to
MaxLines == 5

\* the last value of the clock
MaxTime == 6

\* the scans of the filesystem in a run
MaxScans == 2

\* the changes made to the filesystem in a run
MaxFsVer == 1

\* the entries of a scanned directory
MaxEntries == 2

\* the last value of the clock of the watcher
MaxClock == 4

\* the timers the watcher starts in a run
MaxTimers == 2

\* the notifications the watcher receives in a run
MaxEvents == 3

\* the longest body, in lines, of the documents update_frontmatter is applied to
MaxBody == 2

\* the ConfigChanged messages posted in a run
MaxMessages == 2

(***************************************************************************)
(* Text.  A string is its lines and the line terminator that joins them:   *)
(* "a\nb" is [lines |-> <<"a", "b">>, eol |-> "LF"], "" is one empty line. *)
(* A line text holds no line terminator.                                   *)
(***************************************************************************)
Eols == {"LF", "CR", "CRLF"}

\* the line texts documents are made of: a delimiter line, an empty line, a
\* YAML mapping entry, a YAML plain scalar and a line YAML cannot scan
LineTexts == {"---", "", "k: v", "word", "k: v: w"}

SeqsUpTo(S, n) == UNION {[1..m -> S] : m \in 1..n}

Docs == {[lines |-> l, eol |-> e] : l \in SeqsUpTo(LineTexts, MaxLines), e \in Eols}

Str(l) == [lines |-> l, eol |-> "LF"]

\* content.replace('\r\n', '\n').replace('\r', '\n')
Normalize(s) == [lines |-> s.lines, eol |-> "LF"]

(***************************************************************************)
(* The first re.match of parse_frontmatter (a --- line, a lazy block, a    *)
(* --- line, the rest) on the lines of a normalized string: the first line *)
(* is ---, and the closing --- is the first line j >= 3 that is --- and is *)
(* followed by a line terminator.                                          *)
(***************************************************************************)
ClosingLines(l) == {j \in 3..(Len(l) - 1) : l[j] = "---"}

FrontMatterMatch(l) == Len(l) >= 2 /\ l[1] = "---" /\ ClosingLines(l) # {}

ClosingLine(l) == CHOOSE j \in ClosingLines(l) : \A i \in ClosingLines(l) : j <= i

\* the second re.match: a --- line, a --- line, the rest
EmptyFrontMatterMatch(l) == Len(l) >= 3 /\ l[1] = "---" /\ l[2] = "---"

(***************************************************************************)
(* yaml.safe_load on the lines of a metadata block.  The outcome is a      *)
(* YAMLError or a value: null, a mapping or a string.                      *)
(***************************************************************************)
\* the mapping entries: the line yaml.dump writes for a key and a plain string
\* value, which is the line yaml.safe_load reads that key and value from
EntryTable ==
    {[text |-> "k: v", key |-> "k", value |-> "v"],
     [text |-> "k: w", key |-> "k", value |-> "w"],
     [text |-> "k: v...", key |-> "k", value |-> "v..."],
     [text |-> "j: v", key |-> "j", value |-> "v"],
     [text |-> "j: w", key |-> "j", value |-> "w"],
     [text |-> "j: v...", key |-> "j", value |-> "v..."]}

EntryTexts == {e.text : e \in EntryTable}

LineKind(t) ==
    CASE t = "---" -> "docstart"
      [] t = "" -> "blank"
      [] t \in EntryTexts -> "entry"
      [] t = "word" -> "scalar"
      [] t = "{}" -> "flowempty"
      [] OTHER -> "malformed"

EntryKey(t) == (CHOOSE e \in EntryTable : e.text = t).key
EntryValue(t) == (CHOOSE e \in EntryTable : e.text = t).value

NonBlank(l) == SelectSeq(l, LAMBDA t : LineKind(t) # "blank")

EmptyMapping == [x \in {} |-> ""]

RECURSIVE MappingOf(_)
MappingOf(l) ==
    IF l = <<>> THEN EmptyMapping
    ELSE LET rest == MappingOf(SubSeq(l, 1, Len(l) - 1))
             t == l[Len(l)]
         IN  (EntryKey(t) :> EntryValue(t)) @@ rest

\* a dict in insertion order: its items, one for each key
DictKeys(d) == {d[i].key : i \in 1..Len(d)}

\* d[k] = v: a new key goes last, a key of d keeps its place
DictSet(d, k, v) ==
    IF k \in DictKeys(d)
    THEN [i \in 1..Len(d) |-> IF d[i].key = k THEN [key |-> k, value |-> v] ELSE d[i]]
    ELSE Append(d, [key |-> k, value |-> v])

\* the items of the mapping of a block of entry lines, in the order of the lines
RECURSIVE ItemsOf(_)
ItemsOf(l) ==
    IF l = <<>> THEN <<>>
    ELSE LET t == l[Len(l)]
         IN  DictSet(ItemsOf(SubSeq(l, 1, Len(l) - 1)), EntryKey(t), EntryValue(t))

YamlError == [kind |-> "error"]
YamlNull == [kind |-> "null"]

YamlLoad(l) ==
    LET c == NonBlank(l)
        kinds == {LineKind(c[i]) : i \in 1..Len(c)}
        starts == {i \in 1..Len(c) : LineKind(c[i]) = "docstart"}
        r == IF 1 \in starts THEN Tail(c) ELSE c
        rkinds == {LineKind(r[i]) : i \in 1..Len(r)}
    IN  IF "malformed" \in kinds THEN YamlError
        \* a second document in the stream
        ELSE IF starts \notin {{}, {1}} THEN YamlError
        ELSE IF r = <<>> THEN YamlNull
        ELSE IF rkinds = {"entry"}
             THEN [kind |-> "mapping", map |-> MappingOf(r), items |-> ItemsOf(r)]
        ELSE IF r = <<"{}">> THEN [kind |-> "mapping", map |-> EmptyMapping, items |-> <<>>]
        ELSE IF rkinds = {"scalar"} THEN [kind |-> "string", lines |-> r]
        ELSE YamlError

\* the truth value Python gives a decoded value in `yaml.safe_load(...) or {}`
Truthy(y) ==
    CASE y.kind = "null" -> FALSE
      [] y.kind = "mapping" -> DOMAIN y.map # {}
      [] y.kind = "string" -> TRUE

\* metadata["content"] = body_text
SetItem(m, k, v) == [x \in DOMAIN m \cup {k} |-> IF x = k THEN v ELSE m[x]]

Returned(r) == [state |-> "returned", rec |-> r]
Raised(e) == [state |-> "raised", error |-> e]

parse_frontmatter(content) ==
    LET l == Normalize(content).lines
    IN  IF ~FrontMatterMatch(l)
        THEN IF EmptyFrontMatterMatch(l)
             THEN Returned([content |-> Str(SubSeq(l, 3, Len(l)))])
             ELSE Returned([content |-> content])
        ELSE LET j == ClosingLine(l)
                 frontmatter_text == SubSeq(l, 2, j - 1)
                 body_text == Str(SubSeq(l, j + 1, Len(l)))
                 y == YamlLoad(frontmatter_text)
             IN  IF y.kind = "error" THEN Returned([content |-> body_text])
                 ELSE IF ~Truthy(y) THEN Returned(SetItem(EmptyMapping, "content", body_text))
                 ELSE IF y.kind = "mapping" THEN Returned(SetItem(y.map, "content", body_text))
                 \* a str does not support item assignment
                 ELSE Raised("TypeError")

(***************************************************************************)
(* update_frontmatter.  The metadata and the updates are dicts in          *)
(* insertion order.                                                        *)
(***************************************************************************)
\* metadata.update(updates)
RECURSIVE DictUpdate(_, _)
DictUpdate(d, u) ==
    IF u = <<>> THEN d
    ELSE DictUpdate(DictSet(d, Head(u).key, Head(u).value), Tail(u))

EntryText(k, v) == (CHOOSE e \in EntryTable : e.key = k /\ e.value = v).text

\* the lines of yaml.dump(metadata, default_flow_style=False, sort_keys=False)
Dump(d) ==
    IF d = <<>> THEN <<"{}">>
    ELSE [i \in 1..Len(d) |-> EntryText(d[i].key, d[i].value)]

\* str.endswith('...') on a line
EndsWithDots(t) == t \in {"k: v...", "j: v...", "..."}

\* t[:-3].rstrip() on a line that ends with three dots
WithoutDots(t) ==
    CASE t = "k: v..." -> "k: v"
      [] t = "j: v..." -> "j: v"
      [] t = "..." -> ""

\* lines 77-79: rstrip, then the removal of a trailing '...'
StripEndMarker(l) ==
    IF EndsWithDots(l[Len(l)])
    THEN Append(SubSeq(l, 1, Len(l) - 1), WithoutDots(l[Len(l)]))
    ELSE l

update_frontmatter(text, upd) ==
    LET l == Normalize(text).lines
        matched == FrontMatterMatch(l)
        j == ClosingLine(l)
        y == YamlLoad(SubSeq(l, 2, j - 1))
        body_text == IF matched THEN Str(SubSeq(l, j + 1, Len(l)))
                     ELSE IF EmptyFrontMatterMatch(l) THEN Str(SubSeq(l, 3, Len(l)))
                     ELSE Normalize(text)
        metadata == IF matched /\ y.kind = "mapping" THEN y.items ELSE <<>>
        new_frontmatter == StripEndMarker(Dump(DictUpdate(metadata, upd)))
    IN  \* a str has no method update
        IF matched /\ y.kind = "string" THEN Raised("AttributeError")
        ELSE Returned(Str(<<"---">> \o new_frontmatter \o <<"---">> \o body_text.lines))

(***************************************************************************)
(* The filesystem under the root directory.  A directory exists or not and *)
(* lists its entries in the order the scan meets them; a file is readable  *)
(* (read_text returns its text) or raises OSError, PermissionError or      *)
(* UnicodeDecodeError when read.                                           *)
(***************************************************************************)
Keys == {"agents", "skills", "settings"}

NoDir == [exists |-> FALSE, entries |-> <<>>]
Dir(e) == [exists |-> TRUE, entries |-> e]

\* an entry of agents/: md says whether glob("*.md") lists it
AgentFile(n, m, r, d) == [name |-> n, md |-> m, readable |-> r, doc |-> d]

\* an entry of skills/: is_dir stands for item.is_dir() or item.is_symlink(),
\* has_file for (item / "SKILL.md").exists()
SkillItem(n, i, h, r, d) ==
    [name |-> n, is_dir |-> i, has_file |-> h, readable |-> r, doc |-> d]

\* settings.json: absent, text that is not JSON, bytes that are not text (the
\* read raises UnicodeDecodeError), or a JSON object
NoSettings == [kind |-> "absent"]
BadSettings == [kind |-> "invalid"]
UndecodableSettings == [kind |-> "undecodable"]
Settings(o) == [kind |-> "object", object |-> o]

MappingDoc == [lines |-> <<"---", "k: v", "---", "word">>, eol |-> "LF"]
PlainDoc == [lines |-> <<"word">>, eol |-> "LF"]
ScalarDoc == [lines |-> <<"---", "word", "---", "word">>, eol |-> "LF"]

\* data["id"] = file.stem; data["path"] = str(file)
Inject(rec, name, path) == SetItem(SetItem(rec, "id", name), "path", path)

(***************************************************************************)
(* The loop of get_agents over agents_dir.glob("*.md"): a file whose read  *)
(* raises one of the three caught errors is skipped; any other exception   *)
(* leaves the loop and the call.                                           *)
(***************************************************************************)
RECURSIVE AgentsLoop(_, _)
AgentsLoop(files, agents) ==
    IF files = <<>> THEN Returned(agents)
    ELSE LET file == Head(files)
         IN  IF ~file.md \/ ~file.readable THEN AgentsLoop(Tail(files), agents)
             ELSE LET data == parse_frontmatter(file.doc)
                  IN  IF data.state = "raised" THEN data
                      ELSE AgentsLoop(Tail(files),
                               Append(agents, Inject(data.rec, file.name,
                                                     <<"agents", file.name>>)))

\* the loop of get_skills over skills_dir.iterdir()
RECURSIVE SkillsLoop(_, _)
SkillsLoop(items, skills) ==
    IF items = <<>> THEN Returned(skills)
    ELSE LET item == Head(items)
         IN  IF ~(item.is_dir /\ item.has_file) \/ ~item.readable
             THEN SkillsLoop(Tail(items), skills)
             ELSE LET data == parse_frontmatter(item.doc)
                  IN  IF data.state = "raised" THEN data
                      ELSE SkillsLoop(Tail(items),
                               Append(skills, Inject(data.rec, item.name,
                                                     <<"skills", item.name, "SKILL.md">>)))

(***************************************************************************)
(* Settings.  A name of an env entry is a sequence of pieces of text, so   *)
(* that key.upper() and the substring test have something to work on.      *)
(***************************************************************************)
AsWritten(piece) == piece

Upper(piece) ==
    CASE piece = "key" -> "KEY"
      [] piece = "Token" -> "TOKEN"
      [] piece = "mon" -> "MON"
      [] OTHER -> piece

SensitiveWords == {"KEY", "TOKEN", "SECRET"}

\* any(word in key.upper() for word in ["KEY", "TOKEN", "SECRET"])
Sensitive(name) == \E i \in 1..Len(name) : Upper(name[i]) \in SensitiveWords

Bullets == "bullets8"

MaskEnv(env) == [n \in DOMAIN env |-> IF Sensitive(n) THEN Bullets ELSE env[n]]

\* lines 138-145 of get_settings
Mask(settings) ==
    IF "env" \in DOMAIN settings
    THEN SetItem(settings, "env", MaskEnv(settings["env"]))
    ELSE settings

(***************************************************************************)
(* What an accessor does between its cache lookup and its cache store: the *)
(* scan of the filesystem.  "absent" and "error" are the early returns     *)
(* that store nothing; "found" goes on to _set_cached.                     *)
(***************************************************************************)
Scanned(kind, data) == [kind |-> kind, data |-> data]

ScanAgents(dir) ==
    IF ~dir.exists THEN Scanned("absent", <<>>)
    ELSE LET r == AgentsLoop(dir.entries, <<>>)
         IN  IF r.state = "raised" THEN Scanned("raised", <<>>) ELSE Scanned("found", r.rec)

ScanSkills(dir) ==
    IF ~dir.exists THEN Scanned("absent", <<>>)
    ELSE LET r == SkillsLoop(dir.entries, <<>>)
         IN  IF r.state = "raised" THEN Scanned("raised", <<>>) ELSE Scanned("found", r.rec)

ScanSettings(file) ==
    CASE file.kind = "absent" -> Scanned("absent", EmptyMapping)
      [] file.kind = "invalid" -> Scanned("error", [error |-> "Invalid JSON in settings.json"])
      \* json.load reads the file: an exception that is not JSONDecodeError
      [] file.kind = "undecodable" -> Scanned("raised", EmptyMapping)
      [] file.kind = "object" -> Scanned("found", Mask(file.object))

Scan(k, f) ==
    CASE k = "agents" -> ScanAgents(f.agents)
      [] k = "skills" -> ScanSkills(f.skills)
      [] k = "settings" -> ScanSettings(f.settings)

(***************************************************************************)
(* State.                                                                  *)
(***************************************************************************)
VARIABLES
    \* the codec applied to one document: its argument and its outcome
    content, parsed,
    \* update_frontmatter applied to the document: the updates, its outcome,
    \* and the outcome of parse_frontmatter applied to the text it returned
    updates, updated, reparsed,
    \* class ClaudeConfig: _instance and the class lock
    instance, cls_lock,
    \* the attributes of the instance: _initialized ("unset" until __new__ sets
    \* it), claude_dir, and _cache, _cache_timestamps, _cache_lock
    \* (cache_attrs says whether __init__ has created them)
    initialized, claude_dir, cache_attrs, cache, cache_timestamps,
    \* time.time(), the filesystem and the number of changes made to it
    now, fs, fsver,
    \* the threads that call the store: where each is, the argument of its
    \* call, the result of its scan, what its cache lookup saw, and the
    \* outcome of its last finished call
    pc, param, val, seen, ret,
    \* history: objects built by scans, the value each dataset last stored
    \* since the last invalidate_cache,
    \* the last invalidate_cache, the datasets read since, the runs of the
    \* body of __init__, the instances made, and whether the directory or the
    \* cache of an initialized instance was replaced
    nobj, stored, inval, called, init_runs, created, replaced,
    \* ConfigWatcher: _pending, _timer (0 for None) and the timers it has
    \* started, each a thread in threading.Timer.run
    w_pending, w_timer, timers,
    \* the clock of the watcher, in quarters of a second
    clock,
    \* history of the watcher: the notifications received, by kind of path,
    \* the times of the first and the last watched one, the callbacks run,
    \* whether stop() has returned and the timer it found, and two facts
    \* about callbacks: one ran for the timer stop() found, one ran less
    \* than the debounce time after the last watched notification
    notified, first_at, last_at, callbacks, stopped, stop_timer, late, early,
    \* the application: the ConfigChanged messages posted and not yet handled,
    \* each with its sender and the number of changes of the filesystem when
    \* it was posted, and the one on_config_changed handled last
    messages, handling,
    \* history of the watcher: the notifications of a creation, a deletion or
    \* a move, by kind of path
    ignored,
    \* the application and its observer: _observer ("none" for None), whether
    \* the thread of the observer runs, whether on_unmount has returned, and
    \* what the last on_unmount did
    observer, obs_alive, unmounted, teardown,
    \* the agent detail modal: agent_data, the button pressed ("none" before)
    \* and the calls on_button_pressed made
    agent_data, pressed, modal_calls

codecVars == <<content, parsed, updates, updated, reparsed>>

watcherVars == <<w_pending, w_timer, timers, clock, notified, first_at, last_at,
                 callbacks, stopped, stop_timer, late, early>>

classVars == <<instance, cls_lock, initialized, claude_dir, cache_attrs>>
cacheVars == <<cache, cache_timestamps>>
envVars == <<now, fs, fsver>>
threadVars == <<pc, param, val, seen, ret>>
histVars == <<nobj, stored, inval, called, init_runs, created, replaced>>
storeVars == <<classVars, cacheVars, envVars, threadVars, histVars>>

observerVars == <<observer, obs_alive, unmounted, teardown>>
modalVars == <<agent_data, pressed, modal_calls>>
shellVars == <<ignored, observerVars, modalVars>>

appVars == <<messages, handling, shellVars>>

vars == <<codecVars, storeVars, watcherVars, appVars>>

\* what the actions of the store leave alone
outside == <<codecVars, watcherVars, appVars>>

Pending == [state |-> "pending"]

NoMessage == [src |-> "none", ver |-> 0]

\* no call raises
NoFault == [at |-> 0, exc |-> "none"]

\* on_unmount has not run
NoTeardown ==
    [held |-> FALSE, alive |-> FALSE, calls |-> <<>>, fault |-> NoFault, raised |-> FALSE]

\* no modal shown
NoAgent == [id |-> "none"]

\* on_mount has started the observer; no modal is shown
ShellIdle ==
    /\ ignored = [watched |-> 0, other |-> 0]
    /\ observer = "held" /\ obs_alive = TRUE
    /\ unmounted = FALSE /\ teardown = NoTeardown
    /\ agent_data = NoAgent /\ pressed = "none" /\ modal_calls = <<>>

\* no message posted, none handled
AppIdle == messages = <<>> /\ handling = NoMessage /\ ShellIdle

(***************************************************************************)
(* The codec applied to every document of the bounds.                      *)
(***************************************************************************)
NotUpdated == updates = <<>> /\ updated = Pending /\ reparsed = Pending

CodecInit == content \in Docs /\ parsed = Pending /\ NotUpdated

CodecIdle == content = Str(<<"">>) /\ parsed = Pending /\ NotUpdated

Parse ==
    /\ parsed = Pending
    /\ parsed' = parse_frontmatter(content)
    /\ UNCHANGED <<content, updates, updated, reparsed, storeVars, watcherVars, appVars>>

(***************************************************************************)
(* update_frontmatter applied to documents with every kind of header (no   *)
(* front matter, an empty block, a mapping, a scalar, a block YAML cannot   *)
(* scan) and every body of the bounds, then parse_frontmatter applied to    *)
(* the text it returned.                                                   *)
(***************************************************************************)
DictKeySet == {"k", "j"}

\* the dicts over the keys, with values of V
Dicts(V) ==
    {d \in UNION {[1..n -> [key : DictKeySet, value : V]] : n \in 0..Cardinality(DictKeySet)} :
        \A a, b \in 1..Len(d) : a # b => d[a].key # d[b].key}

DocDicts == Dicts({"v", "v..."})
UpdateDicts == Dicts({"w", "v..."})

BodyTexts == {"", "word", "---"}
Bodies == SeqsUpTo(BodyTexts, MaxBody)

\* the metadata block of a dict between its delimiter lines
Header(d) == <<"---">> \o Dump(d) \o <<"---">>

Headers ==
    {<<>>, <<"---", "---">>, <<"---", "word", "---">>, <<"---", "k: v: w", "---">>}
        \cup {Header(d) : d \in DocDicts}

SerDocs == {[lines |-> h \o b, eol |-> e] : h \in Headers, b \in Bodies, e \in Eols}

SerializeInit ==
    /\ content \in SerDocs /\ updates \in UpdateDicts
    /\ parsed = Pending /\ updated = Pending /\ reparsed = Pending

Update ==
    /\ updated = Pending
    /\ updated' = update_frontmatter(content, updates)
    /\ UNCHANGED <<content, parsed, updates, reparsed, storeVars, watcherVars, appVars>>

Reparse ==
    /\ updated.state = "returned"
    /\ reparsed = Pending
    /\ reparsed' = parse_frontmatter(updated.rec)
    /\ UNCHANGED <<content, parsed, updates, updated, storeVars, watcherVars, appVars>>

SerializeNext == Parse \/ Update \/ Reparse

(***************************************************************************)
(* The store.                                                              *)
(***************************************************************************)
\* the threads that use the store; in the application the first is the thread
\* of the UI event loop and the second the thread of the debounce timer,
\* whose callback is invalidate_cache
Threads == {"t1", "t2"}
UiThread == "t1"
TimerThread == "t2"

\* the directory arguments of ClaudeConfig(claude_dir): None or a path
Args == {"None", "home", "other"}

\* claude_dir = claude_dir or Path.home() / ".claude"
Effective(a) == IF a = "None" THEN "home" ELSE a

cache_ttl == 5

NoEntries == [k \in {} |-> 0]
NoVal == [obj |-> 0]
NoSeen == [had |-> FALSE]
NoRet == [op |-> "none"]

EnvName == <<"API_", "KEY">>

\* two states of the filesystem: each dataset is there in one of them and
\* absent, or unreadable as JSON, in the other
FsA == [agents |-> Dir(<<AgentFile("a", TRUE, TRUE, MappingDoc)>>),
        skills |-> NoDir,
        settings |-> Settings([env |-> (EnvName :> "secret123")])]
FsB == [agents |-> NoDir,
        skills |-> Dir(<<SkillItem("s", TRUE, TRUE, TRUE, PlainDoc)>>),
        settings |-> BadSettings]
FsStates == {FsA, FsB}

StoreInit ==
    /\ instance = "None" /\ cls_lock = "free"
    /\ initialized = "unset" /\ claude_dir = "unset" /\ cache_attrs = FALSE
    /\ cache = NoEntries /\ cache_timestamps = NoEntries
    /\ now = 0 /\ fsver = 0
    /\ fs = FsA
    /\ pc = [t \in Threads |-> "idle"]
    /\ param = [t \in Threads |-> "None"]
    /\ val = [t \in Threads |-> NoVal]
    /\ seen = [t \in Threads |-> NoSeen]
    /\ ret = [t \in Threads |-> NoRet]
    /\ nobj = 0 /\ stored = NoEntries
    /\ inval = [done |-> FALSE, ver |-> 0, dropped |-> NoEntries]
    /\ called = [k \in Keys |-> FALSE]
    /\ init_runs = 0 /\ created = 0 /\ replaced = FALSE

AllIdle == \A t \in Threads : pc[t] = "idle"

\* ---- ClaudeConfig.__new__ ----

\* line 24: the unlocked check
NewOuterCheck(t, a) ==
    /\ pc[t] = "idle"
    /\ pc' = [pc EXCEPT ![t] = IF instance = "None" THEN "new_lock" ELSE "init"]
    /\ param' = [param EXCEPT ![t] = a]
    /\ seen' = [seen EXCEPT ![t] = [had |-> FALSE, was |-> initialized]]
    /\ ret' = [ret EXCEPT ![t] = NoRet]
    /\ UNCHANGED <<classVars, cacheVars, envVars, val, histVars, outside>>

\* lines 25-27: take the class lock, check again, make the instance
NewLocked(t) ==
    /\ pc[t] = "new_lock"
    /\ cls_lock = "free"
    /\ IF instance = "None"
       THEN /\ instance' = "inst"
            /\ created' = created + 1
            /\ cls_lock' = t
            /\ pc' = [pc EXCEPT ![t] = "new_flag"]
       ELSE /\ pc' = [pc EXCEPT ![t] = "init"]
            /\ UNCHANGED <<instance, created, cls_lock>>
    /\ UNCHANGED <<initialized, claude_dir, cache_attrs, cacheVars, envVars,
                   param, val, seen, ret, nobj, stored, inval, called,
                   init_runs, replaced, outside>>

\* line 28, and the release of the class lock
NewFlag(t) ==
    /\ pc[t] = "new_flag"
    /\ initialized' = "false"
    /\ cls_lock' = "free"
    /\ pc' = [pc EXCEPT ![t] = "init"]
    /\ UNCHANGED <<instance, claude_dir, cache_attrs, cacheVars, envVars,
                   param, val, seen, ret, histVars, outside>>

\* ---- ClaudeConfig.__init__ ----

Constructed(t, outcome) ==
    [op |-> "construct", arg |-> param[t], outcome |-> outcome, was |-> seen[t].was]

ConflictsNever(bound, requested) == FALSE

\* line 35: self.claude_dir != claude_dir
Conflicts(bound, requested) == bound # requested

\* lines 32-40: the test of _initialized, the comparison, the error
InitCheck(t) ==
    /\ pc[t] = "init"
    /\ CASE initialized = "unset" ->
              /\ pc' = [pc EXCEPT ![t] = "idle"]
              /\ ret' = [ret EXCEPT ![t] = Constructed(t, "AttributeError")]
         [] initialized = "true" ->
              /\ pc' = [pc EXCEPT ![t] = "idle"]
              /\ ret' = [ret EXCEPT ![t] =
                            Constructed(t, IF Conflicts(claude_dir, Effective(param[t]))
                                           THEN "ValueError" ELSE "ok")]
         [] initialized = "false" ->
              /\ pc' = [pc EXCEPT ![t] = "init_dir"]
              /\ ret' = ret
    /\ UNCHANGED <<classVars, cacheVars, envVars, param, val, seen, histVars,
                   outside>>

\* line 42
InitDir(t) ==
    /\ pc[t] = "init_dir"
    /\ claude_dir' = Effective(param[t])
    /\ replaced' = (replaced \/ claude_dir \notin {"unset", Effective(param[t])})
    /\ pc' = [pc EXCEPT ![t] = "init_flag"]
    /\ UNCHANGED <<instance, cls_lock, initialized, cache_attrs, cacheVars,
                   envVars, param, val, seen, ret, nobj, stored, inval, called,
                   init_runs, created, outside>>

\* line 43
InitFlag(t) ==
    /\ pc[t] = "init_flag"
    /\ initialized' = "true"
    /\ pc' = [pc EXCEPT ![t] = "init_cache"]
    /\ UNCHANGED <<instance, cls_lock, claude_dir, cache_attrs, cacheVars,
                   envVars, param, val, seen, ret, histVars, outside>>

\* lines 45-48
InitCache(t) ==
    /\ pc[t] = "init_cache"
    /\ cache' = NoEntries
    /\ cache_timestamps' = NoEntries
    /\ cache_attrs' = TRUE
    /\ init_runs' = init_runs + 1
    /\ replaced' = (replaced \/ cache_attrs)
    /\ pc' = [pc EXCEPT ![t] = "idle"]
    /\ ret' = [ret EXCEPT ![t] = Constructed(t, "ok")]
    /\ UNCHANGED <<instance, cls_lock, initialized, claude_dir, envVars,
                   param, val, seen, nobj, stored, inval, called, created,
                   outside>>

\* ---- the cache ----

ValidAtTtl(timestamp, time) == time - timestamp <= cache_ttl

\* line 55: time.time() - timestamp < self._cache_ttl
Valid(timestamp, time) == time - timestamp < cache_ttl

\* line 54: self._cache_timestamps.get(key, 0)
TimestampOf(k) == IF k \in DOMAIN cache_timestamps THEN cache_timestamps[k] ELSE 0

\* lines 53-57: whether _get_cached returns the entry rather than None
Hit(k) == k \in DOMAIN cache /\ Valid(TimestampOf(k), now)

\* the map replaced by one that holds the new entry only
PutAlone(m, k, v) == [x \in {k} |-> v]

\* lines 62-63
Put(m, k, v) == [x \in DOMAIN m \cup {k} |-> IF x = k THEN v ELSE m[x]]

ClearedAgentsOnly(m) == [k \in DOMAIN m \ {"agents"} |-> m[k]]

\* lines 68-69: what invalidate_cache leaves of each of the two maps
Cleared(m) == NoEntries

Scanning == {t \in Threads : pc[t] \in {"scan", "store"}}

Got(t, k, kind, scanned, value, looked) ==
    [op |-> "get", key |-> k, kind |-> kind, scanned |-> scanned,
     value |-> value, looked |-> looked]

\* get_agents, get_skills, get_settings up to `return cached`: the lookup
\* under the cache lock (lines 50-57, 73-75)
GetCached(t, k) ==
    /\ pc[t] = "idle"
    /\ cache_attrs
    /\ nobj + Cardinality(Scanning) < MaxScans
    /\ LET looked == [had |-> k \in DOMAIN cache,
                      age |-> now - TimestampOf(k),
                      value |-> IF k \in DOMAIN stored THEN stored[k] ELSE NoVal,
                      first |-> inval.done /\ ~called[k],
                      inval_ver |-> inval.ver,
                      dropped_age |-> IF k \in DOMAIN inval.dropped
                                      THEN now - inval.dropped[k] ELSE -1]
       IN  IF Hit(k)
           THEN /\ pc' = pc
                /\ ret' = [ret EXCEPT ![t] = Got(t, k, "hit", FALSE, cache[k], looked)]
                /\ seen' = seen
                /\ param' = param
           ELSE /\ pc' = [pc EXCEPT ![t] = "scan"]
                /\ ret' = [ret EXCEPT ![t] = NoRet]
                /\ seen' = [seen EXCEPT ![t] = looked]
                /\ param' = [param EXCEPT ![t] = k]
    /\ called' = [called EXCEPT ![k] = TRUE]
    /\ UNCHANGED <<classVars, cacheVars, envVars, val, nobj, stored, inval,
                   init_runs, created, replaced, outside>>

\* the scan of the filesystem, outside the lock (lines 77-90, 101-117,
\* 128-145), with the early returns that store nothing
ScanFs(t) ==
    /\ pc[t] = "scan"
    /\ LET s == Scan(param[t], fs)
           v == [obj |-> nobj + 1, ver |-> fsver, data |-> s.data]
       IN  IF s.kind = "found"
           THEN /\ pc' = [pc EXCEPT ![t] = "store"]
                /\ val' = [val EXCEPT ![t] = v]
                /\ ret' = ret
           ELSE /\ pc' = [pc EXCEPT ![t] = "idle"]
                /\ val' = val
                /\ ret' = [ret EXCEPT ![t] = Got(t, param[t], s.kind, TRUE, v, seen[t])]
    /\ nobj' = nobj + 1
    /\ UNCHANGED <<classVars, cacheVars, envVars, param, seen, stored, inval,
                   called, init_runs, created, replaced, outside>>

\* _set_cached without the assignment of the timestamp
SetCachedValueOnly(t) ==
    /\ pc[t] = "store"
    /\ cache' = Put(cache, param[t], val[t])
    /\ cache_timestamps' = cache_timestamps
    /\ stored' = Put(stored, param[t], val[t])
    /\ pc' = [pc EXCEPT ![t] = "idle"]
    /\ ret' = [ret EXCEPT ![t] = Got(t, param[t], "miss", TRUE, val[t], seen[t])]
    /\ val' = [val EXCEPT ![t] = NoVal]
    /\ UNCHANGED <<classVars, envVars, param, seen, nobj, inval, called,
                   init_runs, created, replaced, outside>>

\* _set_cached under the cache lock, and the return (lines 59-63, 92-93)
SetCached(t) ==
    /\ pc[t] = "store"
    /\ cache' = Put(cache, param[t], val[t])
    /\ cache_timestamps' = Put(cache_timestamps, param[t], now)
    /\ stored' = Put(stored, param[t], val[t])
    /\ pc' = [pc EXCEPT ![t] = "idle"]
    /\ ret' = [ret EXCEPT ![t] = Got(t, param[t], "miss", TRUE, val[t], seen[t])]
    /\ val' = [val EXCEPT ![t] = NoVal]
    /\ UNCHANGED <<classVars, envVars, param, seen, nobj, inval, called,
                   init_runs, created, replaced, outside>>

\* invalidate_cache (lines 65-69)
InvalidateCache(t) ==
    /\ pc[t] = "idle"
    /\ cache_attrs
    /\ cache' = Cleared(cache)
    /\ cache_timestamps' = Cleared(cache_timestamps)
    /\ inval' = [done |-> TRUE, ver |-> fsver, dropped |-> cache_timestamps]
    /\ called' = [k \in Keys |-> FALSE]
    /\ stored' = NoEntries
    /\ UNCHANGED <<classVars, envVars, threadVars, nobj, init_runs, created,
                   replaced, outside>>

\* ---- the environment ----

\* a file or directory under the root is written, created or deleted
FsChange(c) ==
    /\ fsver < MaxFsVer
    /\ c # fs
    /\ fs' = c
    /\ fsver' = fsver + 1
    /\ UNCHANGED <<now, classVars, cacheVars, threadVars, histVars, outside>>

Tick ==
    /\ now < MaxTime
    /\ now' = now + 1
    /\ UNCHANGED <<fs, fsver, classVars, cacheVars, threadVars, histVars, outside>>

(***************************************************************************)
(* The application around the store.  Its writers (_save_assignments,      *)
(* _create_agent, _create_skill, _install_skill) write a watched file and   *)
(* post ConfigChanged; the callback it gives the watcher invalidates the    *)
(* cache and posts ConfigChanged; on_config_changed handles a message by    *)
(* calling on_mount of the current screen, which reads its dataset from the *)
(* store.                                                                   *)
(***************************************************************************)
\* on_config_changed has taken a message and its screen has not read yet
Refreshing == handling # NoMessage /\ ret[UiThread].op # "get"

\* a writer: the write, then self.app.post_message(ConfigChanged())
WriterSave(c) ==
    /\ pc[UiThread] = "idle" /\ ~Refreshing
    /\ fsver < MaxFsVer
    /\ Len(messages) < MaxMessages
    /\ c # fs
    /\ fs' = c
    /\ fsver' = fsver + 1
    /\ messages' = Append(messages, [src |-> "writer", ver |-> fsver + 1])
    /\ UNCHANGED <<now, classVars, cacheVars, threadVars, histVars, handling,
                   shellVars, codecVars, watcherVars>>

\* on_config_change, the callback of the watcher, on the timer thread
OnConfigChange ==
    /\ fsver > 0
    /\ Len(messages) < MaxMessages
    /\ cache' = Cleared(cache)
    /\ cache_timestamps' = Cleared(cache_timestamps)
    /\ inval' = [done |-> TRUE, ver |-> fsver, dropped |-> cache_timestamps]
    /\ called' = [k \in Keys |-> FALSE]
    /\ stored' = NoEntries
    /\ messages' = Append(messages, [src |-> "watcher", ver |-> fsver])
    /\ UNCHANGED <<classVars, envVars, threadVars, nobj, init_runs, created,
                   replaced, handling, shellVars, codecVars, watcherVars>>

\* on_config_changed up to current_screen.on_mount()
OnConfigChanged ==
    /\ messages # <<>>
    /\ pc[UiThread] = "idle" /\ ~Refreshing
    /\ handling' = Head(messages)
    /\ messages' = Tail(messages)
    /\ ret' = [ret EXCEPT ![UiThread] = NoRet]
    /\ UNCHANGED <<classVars, cacheVars, envVars, pc, param, val, seen, histVars,
                   shellVars, codecVars, watcherVars>>

\* on_mount of a screen, when it is shown first and when it is refreshed
ScreenRead(k) ==
    /\ handling = NoMessage \/ Refreshing
    /\ GetCached(UiThread, k)

AppNext ==
    \/ \E k \in Keys : ScreenRead(k)
    \/ ScanFs(UiThread)
    \/ SetCached(UiThread)
    \/ \E c \in FsStates : WriterSave(c)
    \/ OnConfigChange
    \/ OnConfigChanged
    \/ Tick

(***************************************************************************)
(* ConfigWatcher.  A path is its pieces of text, the last one the          *)
(* extension; a timer is a thread in threading.Timer.run: "waiting" in     *)
(* finished.wait(interval), "running" once it has found finished unset and *)
(* is about to call _run_callback, "calling" between the locked part of    *)
(* _run_callback and self.callback(), then "done"; cancel() sets finished, *)
(* which only a waiting timer still looks at.                              *)
(***************************************************************************)
Paths == {<<"agents/a", ".md">>, <<"settings", ".json">>, <<"logo", ".png">>,
          <<"agents/a", ".md", ".swp">>}

\* str.endswith
EndsWith(path, suffix) == path[Len(path)] = suffix

MatchesMdOnly(path) == EndsWith(path, ".md")

\* line 183
Matches(path) == EndsWith(path, ".md") \/ EndsWith(path, ".json")

\* debounce_seconds = 0.5, in quarters of a second
debounce_seconds == 2

WatcherInit ==
    /\ w_pending = FALSE /\ w_timer = 0 /\ timers = <<>>
    /\ clock = 0
    /\ notified = [watched |-> 0, other |-> 0]
    /\ first_at = -1 /\ last_at = -1
    /\ callbacks = 0 /\ stopped = FALSE /\ stop_timer = 0
    /\ late = FALSE /\ early = FALSE

\* threading.Timer.cancel
Cancel(ts, i) ==
    IF i # 0 /\ ts[i].state = "waiting" THEN [ts EXCEPT ![i].state = "cancelled"] ELSE ts

Watched(path) == path[Len(path)] \in {".md", ".json"}

\* on_modified and _trigger_callback without the test of _pending
OnModifiedRestarts(path) ==
    /\ notified.watched + notified.other < MaxEvents
    /\ notified' = IF Watched(path)
                   THEN [notified EXCEPT !.watched = @ + 1]
                   ELSE [notified EXCEPT !.other = @ + 1]
    /\ first_at' = IF Watched(path) /\ first_at = -1 THEN clock ELSE first_at
    /\ last_at' = IF Watched(path) THEN clock ELSE last_at
    /\ IF Matches(path)
       THEN /\ Len(timers) < MaxTimers
            /\ w_pending' = TRUE
            /\ timers' = Append(Cancel(timers, w_timer),
                                [state |-> "waiting", deadline |-> clock + debounce_seconds])
            /\ w_timer' = Len(timers) + 1
       ELSE UNCHANGED <<w_pending, w_timer, timers>>
    /\ UNCHANGED <<clock, callbacks, stopped, stop_timer, late, early, codecVars, storeVars, appVars>>

\* on_modified and _trigger_callback (lines 181-197)
OnModified(path) ==
    /\ notified.watched + notified.other < MaxEvents
    /\ notified' = IF Watched(path)
                   THEN [notified EXCEPT !.watched = @ + 1]
                   ELSE [notified EXCEPT !.other = @ + 1]
    /\ first_at' = IF Watched(path) /\ first_at = -1 THEN clock ELSE first_at
    /\ last_at' = IF Watched(path) THEN clock ELSE last_at
    /\ IF Matches(path) /\ ~w_pending
       THEN /\ Len(timers) < MaxTimers
            /\ w_pending' = TRUE
            /\ timers' = Append(Cancel(timers, w_timer),
                                [state |-> "waiting", deadline |-> clock + debounce_seconds])
            /\ w_timer' = Len(timers) + 1
       ELSE UNCHANGED <<w_pending, w_timer, timers>>
    /\ UNCHANGED <<clock, callbacks, stopped, stop_timer, late, early, codecVars, storeVars, appVars>>

\* Timer.run: the wait is over and finished is not set
TimerExpire(i) ==
    /\ timers[i].state = "waiting"
    /\ clock >= timers[i].deadline
    /\ timers' = [timers EXCEPT ![i].state = "running"]
    /\ UNCHANGED <<w_pending, w_timer, clock, notified, first_at, last_at, callbacks,
                   stopped, stop_timer, late, early, codecVars, storeVars, appVars>>

\* _run_callback without the reset of _pending
RunCallbackKeepsPending(i) ==
    /\ timers[i].state = "running"
    /\ w_pending' = w_pending
    /\ w_timer' = 0
    /\ timers' = [timers EXCEPT ![i].state = "calling"]
    /\ UNCHANGED <<clock, notified, first_at, last_at, callbacks, stopped, stop_timer,
                   late, early, codecVars, storeVars, appVars>>

\* _run_callback under the lock (lines 201-203)
RunCallback(i) ==
    /\ timers[i].state = "running"
    /\ w_pending' = FALSE
    /\ w_timer' = 0
    /\ timers' = [timers EXCEPT ![i].state = "calling"]
    /\ UNCHANGED <<clock, notified, first_at, last_at, callbacks, stopped, stop_timer,
                   late, early, codecVars, storeVars, appVars>>

\* self.callback() (line 204)
Callback(i) ==
    /\ timers[i].state = "calling"
    /\ timers' = [timers EXCEPT ![i].state = "done"]
    /\ callbacks' = callbacks + 1
    /\ late' = (late \/ (stopped /\ stop_timer = i))
    /\ early' = (early \/ clock - last_at < debounce_seconds)
    /\ UNCHANGED <<w_pending, w_timer, clock, notified, first_at, last_at, stopped,
                   stop_timer, codecVars, storeVars, appVars>>

\* stop (lines 206-211)
Stop ==
    /\ ~stopped
    /\ timers' = Cancel(timers, w_timer)
    /\ w_timer' = 0
    /\ stopped' = TRUE
    /\ stop_timer' = w_timer
    /\ UNCHANGED <<w_pending, clock, notified, first_at, last_at, callbacks, late,
                   early, codecVars, storeVars, appVars>>

WatcherTick ==
    /\ clock < MaxClock
    /\ clock' = clock + 1
    /\ UNCHANGED <<w_pending, w_timer, timers, notified, first_at, last_at, callbacks,
                   stopped, stop_timer, late, early, codecVars, storeVars, appVars>>

\* the kinds of event the observer dispatches besides a modification
OtherKinds == {"created", "deleted", "moved"}

\* on_created, on_deleted, on_moved: ConfigWatcher does not override them,
\* the methods of FileSystemEventHandler do nothing
OnOtherEvent(kind, path) ==
    /\ notified.watched + notified.other + ignored.watched + ignored.other < MaxEvents
    /\ ignored' = IF Watched(path)
                  THEN [ignored EXCEPT !.watched = @ + 1]
                  ELSE [ignored EXCEPT !.other = @ + 1]
    /\ UNCHANGED <<watcherVars, codecVars, storeVars, messages, handling,
                   observerVars, modalVars>>

\* FileSystemEventHandler.dispatch: the method of the kind of the event
Dispatch(kind, path) ==
    IF kind = "modified" THEN OnModified(path) ELSE OnOtherEvent(kind, path)

EventsNext ==
    \/ \E kind \in OtherKinds \cup {"modified"}, path \in Paths : Dispatch(kind, path)
    \/ \E i \in DOMAIN timers : TimerExpire(i)
    \/ \E i \in DOMAIN timers : RunCallback(i)
    \/ \E i \in DOMAIN timers : Callback(i)
    \/ Stop
    \/ WatcherTick

\* a notification early enough for its timer to expire within the run
NotifyInTime(path) ==
    /\ clock + debounce_seconds <= MaxClock
    /\ OnModified(path)

LiveNext ==
    \/ \E path \in Paths : NotifyInTime(path)
    \/ \E i \in DOMAIN timers : TimerExpire(i)
    \/ \E i \in DOMAIN timers : RunCallback(i)
    \/ \E i \in DOMAIN timers : Callback(i)
    \/ Stop
    \/ WatcherTick

\* time passes, and every timer thread goes on running: threading.Timer
\* threads are scheduled by the operating system
TimersRun ==
    /\ WF_vars(WatcherTick)
    /\ \A i \in 1..MaxTimers :
           /\ WF_vars(i \in DOMAIN timers /\ TimerExpire(i))
           /\ WF_vars(i \in DOMAIN timers /\ RunCallback(i))
           /\ WF_vars(i \in DOMAIN timers /\ Callback(i))

WatcherNext ==
    \/ \E path \in Paths : OnModified(path)
    \/ \E i \in DOMAIN timers : TimerExpire(i)
    \/ \E i \in DOMAIN timers : RunCallback(i)
    \/ \E i \in DOMAIN timers : Callback(i)
    \/ Stop
    \/ WatcherTick

(***************************************************************************)
(* The application and its observer.  on_mount gives the watcher the       *)
(* callback on_config_change and keeps the observer start_watching returns; *)
(* the ConfigWatcher itself is a local variable of start_watching.  A call  *)
(* on_unmount makes on the observer may raise; the thread of the observer   *)
(* delivers notifications while it runs.                                    *)
(***************************************************************************)
\* subclasses of Exception a call on the observer may raise
Exceptions == {"RuntimeError", "OSError"}

\* the n-th call of on_unmount raises exc
Faults == {NoFault} \cup [at : 1..5, exc : Exceptions]

\* join(timeout=5.0) (line 131)
join_timeout == 5

ObserverCall(op) == [op |-> op, timeout |-> IF op = "join" THEN join_timeout ELSE 0]

\* lines 129-136: the calls on_unmount makes on an observer it holds when
\* none of them raises; still says whether the thread outlives the join
UnmountCalls(alive, still) ==
    IF alive
    THEN <<ObserverCall("is_alive"), ObserverCall("stop"), ObserverCall("join"),
           ObserverCall("is_alive")>>
         \o (IF still THEN <<ObserverCall("notify")>> ELSE <<>>)
    ELSE <<ObserverCall("is_alive")>>

CaughtRuntimeOnly(exc) == exc = "RuntimeError"

\* line 137: except Exception
Caught(exc) == exc \in Exceptions

\* on_unmount (lines 125-140)
OnUnmount(fault, still) ==
    /\ ~unmounted
    /\ LET held == observer = "held"
           full == IF held THEN UnmountCalls(obs_alive, still) ELSE <<>>
           failed == fault.at \in 1..Len(full)
           made == IF failed THEN SubSeq(full, 1, fault.at) ELSE full
           stop_returned == held /\ obs_alive /\ (~failed \/ fault.at > 2)
       IN  /\ teardown' = [held |-> held, alive |-> obs_alive, calls |-> made,
                           fault |-> IF failed THEN fault ELSE NoFault,
                           raised |-> failed /\ ~Caught(fault.exc)]
           /\ obs_alive' = IF stop_returned THEN still ELSE obs_alive
    /\ observer' = "none"
    /\ unmounted' = TRUE
    /\ UNCHANGED <<codecVars, storeVars, watcherVars, messages, handling, ignored,
                   modalVars>>

\* the thread of the observer delivers a modification to the ConfigWatcher
Observed(path) ==
    /\ obs_alive
    /\ OnModified(path)

\* self.callback() (line 204) with the callback of on_mount:
\* on_config_change (app.py, lines 107-111)
MountedCallback(i) ==
    /\ timers[i].state = "calling"
    /\ timers' = [timers EXCEPT ![i].state = "done"]
    /\ callbacks' = callbacks + 1
    /\ late' = (late \/ (stopped /\ stop_timer = i))
    /\ early' = (early \/ clock - last_at < debounce_seconds)
    /\ cache' = Cleared(cache)
    /\ cache_timestamps' = Cleared(cache_timestamps)
    /\ inval' = [done |-> TRUE, ver |-> fsver, dropped |-> cache_timestamps]
    /\ called' = [k \in Keys |-> FALSE]
    /\ stored' = NoEntries
    /\ messages' = Append(messages, [src |-> "watcher", ver |-> fsver])
    /\ UNCHANGED <<w_pending, w_timer, clock, notified, first_at, last_at, stopped,
                   stop_timer, classVars, envVars, threadVars, nobj, init_runs,
                   created, replaced, handling, shellVars, codecVars>>

TeardownNext ==
    \/ \E path \in Paths : Observed(path)
    \/ \E i \in DOMAIN timers : TimerExpire(i)
    \/ \E i \in DOMAIN timers : RunCallback(i)
    \/ \E i \in DOMAIN timers : MountedCallback(i)
    \/ \E fault \in Faults, still \in BOOLEAN : OnUnmount(fault, still)
    \/ WatcherTick

(***************************************************************************)
(* The agent detail modal.  agent_data is a record of the scan: id, the    *)
(* keys of the front matter, content and, as get_agents adds it, path.  Its *)
(* two buttons are Close (id "close") and Edit (no id).                     *)
(***************************************************************************)
OptionalKeys == {"name", "model", "description", "tools", "path"}

AgentPaths == {"agents/a.md", "agents/b.md"}

AgentDatas ==
    {[k \in S \cup {"id", "content"} |-> IF k = "path" THEN p ELSE "text"] :
        S \in SUBSET OptionalKeys, p \in AgentPaths}

ButtonIds == {"close", "None"}

AppCall(call, arg) == [call |-> call, arg |-> arg]

\* AgentDetailScreen.on_button_pressed (lines 33-43)
OnButtonPressed(id) ==
    /\ pressed = "none"
    /\ agent_data # NoAgent
    /\ pressed' = id
    /\ modal_calls' =
           IF id = "close" THEN <<AppCall("pop_screen", "")>>
           ELSE IF "path" \notin DOMAIN agent_data
           THEN <<AppCall("notify", "error")>>
           ELSE <<AppCall("pop_screen", ""), AppCall("exit", ""),
                  AppCall("open_editor", agent_data["path"])>>
    /\ UNCHANGED <<agent_data, codecVars, storeVars, watcherVars, messages, handling,
                   ignored, observerVars>>

ModalNext == \E id \in ButtonIds : OnButtonPressed(id)

\* ---- specifications of the store ----


\* the state once on_mount has constructed the store: ClaudeConfig()
StoreReadyOn(f) ==
    /\ instance = "inst" /\ cls_lock = "free"
    /\ initialized = "true" /\ claude_dir = "home" /\ cache_attrs = TRUE
    /\ cache = NoEntries /\ cache_timestamps = NoEntries
    /\ now = 0 /\ fsver = 0
    /\ fs = f
    /\ pc = [t \in Threads |-> "idle"]
    /\ param = [t \in Threads |-> "None"]
    /\ val = [t \in Threads |-> NoVal]
    /\ seen = [t \in Threads |-> NoSeen]
    /\ ret = [t \in Threads |-> NoRet]
    /\ nobj = 0 /\ stored = NoEntries
    /\ inval = [done |-> FALSE, ver |-> 0, dropped |-> NoEntries]
    /\ called = [k \in Keys |-> FALSE]
    /\ init_runs = 1 /\ created = 1 /\ replaced = FALSE

StoreReady == StoreReadyOn(FsA)

Environment ==
    \/ \E c \in FsStates : FsChange(c)
    \/ Tick

\* the calls of the UI thread: the accessors, and invalidate_cache after a write
UiBegin ==
    \/ \E k \in Keys : GetCached(UiThread, k)
    \/ InvalidateCache(UiThread)

UiContinue ==
    \/ ScanFs(UiThread)
    \/ SetCached(UiThread)

\* the callback of the watcher on the timer thread
TimerCall == InvalidateCache(TimerThread)

\* the UI thread reads while the timer thread invalidates
StoreNext == UiBegin \/ UiContinue \/ TimerCall \/ Environment

\* one call at a time
SeqNext == (AllIdle /\ (UiBegin \/ TimerCall)) \/ UiContinue \/ Environment

\* any thread calls the accessors and invalidate_cache
AnyCall(t) ==
    \/ \E k \in Keys : GetCached(t, k)
    \/ ScanFs(t)
    \/ SetCached(t)
    \/ InvalidateCache(t)

ConcurrentNext == (\E t \in Threads : AnyCall(t)) \/ (\E c \in FsStates : FsChange(c))

\* the initial states: the store constructed, the codec and the watcher unused
StoreOnlyInit == WatcherInit /\ StoreReady /\ CodecIdle /\ AppIdle

SpecStore == StoreOnlyInit /\ [][StoreNext]_vars

SpecSeq == StoreOnlyInit /\ [][SeqNext]_vars

\* construction: every thread constructs the store, and reads agents from it
Construct(t) ==
    \/ \E a \in Args : NewOuterCheck(t, a)
    \/ NewLocked(t)
    \/ NewFlag(t)
    \/ InitCheck(t)
    \/ InitDir(t)
    \/ InitFlag(t)
    \/ InitCache(t)

Read(t) ==
    \/ GetCached(t, "agents")
    \/ ScanFs(t)
    \/ SetCached(t)

Starts(t) == pc[t] = "idle"

InitNext == \E t \in Threads : Construct(t) \/ Read(t)

InitSeqNext == \E t \in Threads : (Starts(t) => AllIdle) /\ (Construct(t) \/ Read(t))

\* the initial states: the class loaded, no instance yet
ClassInit == WatcherInit /\ StoreInit /\ CodecIdle /\ AppIdle

SpecInit == ClassInit /\ [][InitNext]_vars

SpecInitSeq == ClassInit /\ [][InitSeqNext]_vars

\* ---- the scans applied to every directory of the bounds ----

FileDocs == {MappingDoc, PlainDoc, ScalarDoc}
EntryNames == <<"a", "b", "c", "d">>

AgentDirs ==
    {NoDir} \cup
    {Dir([i \in DOMAIN f |-> AgentFile(EntryNames[i], f[i].md, f[i].readable, f[i].doc)]) :
        f \in UNION {[1..n -> [md : BOOLEAN, readable : BOOLEAN, doc : FileDocs]] :
                        n \in 0..MaxEntries}}

SkillDirs ==
    {NoDir} \cup
    {Dir([i \in DOMAIN f |-> SkillItem(EntryNames[i], f[i].is_dir, f[i].has_file,
                                       f[i].readable, f[i].doc)]) :
        f \in UNION {[1..n -> [is_dir : BOOLEAN, has_file : BOOLEAN,
                               readable : BOOLEAN, doc : FileDocs]] :
                        n \in 0..MaxEntries}}

ScanInit ==
    \/ \E d \in AgentDirs :
           StoreReadyOn([agents |-> d, skills |-> NoDir, settings |-> NoSettings])
    \/ \E d \in SkillDirs :
           StoreReadyOn([agents |-> NoDir, skills |-> d, settings |-> NoSettings])

ScanNext ==
    \/ \E k \in {"agents", "skills"} : GetCached(UiThread, k)
    \/ ScanFs(UiThread)
    \/ SetCached(UiThread)

\* the initial states: the store over every directory of the bounds
DirsInit == WatcherInit /\ ScanInit /\ CodecIdle /\ AppIdle

SpecScan == DirsInit /\ [][ScanNext]_vars

\* ---- get_settings applied to every settings file of the bounds ----

EnvNames == {<<"API_", "KEY">>, <<"NORMAL_VAR">>, <<"my", "Token">>}
EnvValues == {"secret123", "value"}
Envs == UNION {[S -> EnvValues] : S \in SUBSET EnvNames}

SettingsObjects ==
    {[env |-> env] : env \in Envs} \cup {[model |-> "opus"]}
        \cup {[model |-> "opus", env |-> env] : env \in Envs}

SettingsFiles ==
    {NoSettings, BadSettings, UndecodableSettings} \cup {Settings(o) : o \in SettingsObjects}

SettingsInit ==
    \E f \in SettingsFiles : StoreReadyOn([agents |-> NoDir, skills |-> NoDir, settings |-> f])

SettingsNext ==
    \/ GetCached(UiThread, "settings")
    \/ ScanFs(UiThread)
    \/ SetCached(UiThread)
    \/ Tick

\* the initial states: the store over every settings file of the bounds
FilesInit == WatcherInit /\ SettingsInit /\ CodecIdle /\ AppIdle

SpecSettings == FilesInit /\ [][SettingsNext]_vars

\* the initial states: the application mounted, its store constructed
MountedInit == WatcherInit /\ StoreReady /\ CodecIdle /\ AppIdle

SpecApp == MountedInit /\ [][AppNext]_vars

\* the initial states: the watcher constructed over a constructed store
WatchInit == WatcherInit /\ StoreReady /\ CodecIdle /\ AppIdle

SpecWatcher == WatchInit /\ [][WatcherNext]_vars

\* the initial states: the store constructed, no call begun
CallersInit == WatcherInit /\ StoreReady /\ CodecIdle /\ AppIdle

SpecConcurrent == CallersInit /\ [][ConcurrentNext]_vars

\* the initial states: the watcher constructed, every kind of event to come
ObservedInit == WatcherInit /\ StoreReady /\ CodecIdle /\ AppIdle

SpecEvents == ObservedInit /\ [][EventsNext]_vars

\* the initial states: the watcher constructed, its timer threads scheduled
LiveInit == WatcherInit /\ StoreReady /\ CodecIdle /\ AppIdle

SpecWatcherLive == LiveInit /\ [][LiveNext]_vars /\ TimersRun

\* the application before on_unmount: with the observer on_mount started,
\* running or dead, or without one
TeardownInit ==
    /\ WatcherInit /\ StoreReady /\ CodecIdle
    /\ messages = <<>> /\ handling = NoMessage
    /\ ignored = [watched |-> 0, other |-> 0]
    /\ observer \in {"none", "held"}
    /\ obs_alive \in BOOLEAN
    /\ observer = "none" => ~obs_alive
    /\ unmounted = FALSE /\ teardown = NoTeardown
    /\ agent_data = NoAgent /\ pressed = "none" /\ modal_calls = <<>>

SpecTeardown == TeardownInit /\ [][TeardownNext]_vars

\* the initial states: the modal shown for every agent record of the bounds
ModalInit ==
    /\ WatcherInit /\ StoreReady /\ CodecIdle
    /\ messages = <<>> /\ handling = NoMessage
    /\ ignored = [watched |-> 0, other |-> 0]
    /\ observer = "held" /\ obs_alive = TRUE
    /\ unmounted = FALSE /\ teardown = NoTeardown
    /\ agent_data \in AgentDatas
    /\ pressed = "none" /\ modal_calls = <<>>

SpecModal == ModalInit /\ [][ModalNext]_vars

Spec == SpecStore

\* the initial states: every document of the bounds, not parsed yet
DocsInit == CodecInit /\ StoreReady /\ WatcherInit /\ AppIdle

SpecCodec == DocsInit /\ [][Parse]_vars

\* the initial states: every document and every updates of the bounds
UpdatesInit == SerializeInit /\ StoreReady /\ WatcherInit /\ AppIdle

SpecSerialize == UpdatesInit /\ [][SerializeNext]_vars

(***************************************************************************)
(* The calls the claims are about: the accessor calls that have returned.  *)
(***************************************************************************)
Gets == {t \in Threads : ret[t].op = "get"}

(***************************************************************************)
(* C1.  After invalidate_cache has returned, the next call of an accessor  *)
(* returns data read from the filesystem at or after the invalidation: the *)
(* first call of a dataset's accessor that begins after an invalidation    *)
(* never returns a snapshot older than the filesystem was then.            *)
(***************************************************************************)
C1_FreshAfterInvalidate ==
    \A t \in Gets :
        ret[t].looked.first => ret[t].value.ver >= ret[t].looked.inval_ver

(***************************************************************************)
(* C2.  An accessor returns without scanning if and only if its dataset    *)
(* has an entry younger than 5 seconds, and then it returns the very       *)
(* object the populating call stored.                                      *)
(***************************************************************************)
C2_HitIffValid ==
    \A t \in Gets :
        /\ ~ret[t].scanned <=> (ret[t].looked.had /\ ret[t].looked.age < 5)
        /\ ~ret[t].scanned => ret[t].value = ret[t].looked.value

\* a hit on an entry one second short of the TTL, after the files changed
C2_Witness ==
    \E t \in Gets :
        /\ ~ret[t].scanned
        /\ ret[t].looked.age = 4
        /\ ret[t].value.ver < fsver

(***************************************************************************)
(* C3.  invalidate_cache removes the entries of all datasets at once, so   *)
(* with one call at a time the first call of each accessor after it scans  *)
(* the filesystem, also when the entry it removed had not expired.         *)
(***************************************************************************)
C3_InvalidateForcesRescan ==
    /\ (inval.done /\ \A k \in Keys : ~called[k])
           => (DOMAIN cache = {} /\ DOMAIN cache_timestamps = {})
    /\ \A t \in Gets : ret[t].looked.first => ret[t].scanned

\* the first read of skills after an invalidation that removed an entry of
\* skills less than 5 seconds old
C3_Witness ==
    \E t \in Gets :
        /\ ret[t].key = "skills"
        /\ ret[t].looked.first
        /\ ret[t].scanned
        /\ ret[t].looked.dropped_age \in 0..4

(***************************************************************************)
(* C7.  Initialization is serialized: under concurrent construction the    *)
(* body of __init__ runs once, a caller whose directory is not the bound   *)
(* one gets an error, and the directory and the cache are never replaced.  *)
(***************************************************************************)
Constructs == {t \in Threads : ret[t].op = "construct"}

C7_InitOnce ==
    /\ init_runs <= 1
    /\ ~replaced
    /\ \A t \in Constructs :
           Effective(ret[t].arg) # claude_dir => ret[t].outcome # "ok"

(***************************************************************************)
(* C8.  With one call at a time, constructing an initialized store with    *)
(* another directory raises ValueError, constructing it with the bound     *)
(* directory returns the one instance without error, and neither replaces  *)
(* the directory or the cache.                                             *)
(***************************************************************************)
C8_Reconstruct ==
    /\ init_runs <= 1 /\ created <= 1 /\ ~replaced
    /\ \A t \in Constructs :
           ret[t].was = "true" =>
               ret[t].outcome = IF Effective(ret[t].arg) # claude_dir
                                THEN "ValueError" ELSE "ok"

\* a construction with another directory is refused while the cache holds agents
C8_Witness ==
    \E t \in Constructs :
        /\ ret[t].was = "true"
        /\ ret[t].outcome = "ValueError"
        /\ "agents" \in DOMAIN cache

(***************************************************************************)
(* C9.  Parse never raises: for every input it returns a mapping that      *)
(* holds the key content, and when the metadata block does not decode to a *)
(* mapping the result holds content alone, with the body.                  *)
(***************************************************************************)
DecodesToMapping(l) == YamlLoad(l).kind \in {"mapping", "null"}

C9_ParseNeverRaises ==
    parsed # Pending =>
        /\ parsed.state = "returned"
        /\ "content" \in DOMAIN parsed.rec
        /\ LET l == Normalize(content).lines
           IN  (FrontMatterMatch(l) /\ ~DecodesToMapping(SubSeq(l, 2, ClosingLine(l) - 1)))
                   => parsed.rec = [content |-> Str(SubSeq(l, ClosingLine(l) + 1, Len(l)))]

(***************************************************************************)
(* C10.  get_agents and get_skills never fail because of a bad entry: when *)
(* some listed file of the directory cannot be read, the call raises       *)
(* nothing and returns exactly the records of the other listed files.      *)
(***************************************************************************)
Listed(k, e) == IF k = "agents" THEN e.md ELSE e.is_dir /\ e.has_file

Names(entries) == [i \in 1..Len(entries) |-> entries[i].name]

Ids(records) == [i \in 1..Len(records) |-> records[i]["id"]]

C10_ScanToleratesBadEntries ==
    \A t \in Gets :
        LET k == ret[t].key
            listed == SelectSeq(fs[k].entries, LAMBDA e : Listed(k, e))
            bad == SelectSeq(listed, LAMBDA e : ~e.readable)
            remaining == SelectSeq(listed, LAMBDA e : e.readable)
        IN  (fs[k].exists /\ bad # <<>>) =>
                /\ ret[t].kind # "raised"
                /\ Ids(ret[t].value.data) = Names(remaining)

(***************************************************************************)
(* C4.  Once stop() has returned, the callback of the timer that was       *)
(* pending when stop() was called is never invoked.                        *)
(***************************************************************************)
C4_NoCallbackAfterStop == ~late

(***************************************************************************)
(* C5.  Watched notifications (.md, .json) that all arrive less than the   *)
(* debounce time after the first of them cause exactly one callback: never *)
(* more, and one once no timer is left; other notifications cause none.    *)
(***************************************************************************)
Outstanding == \E i \in DOMAIN timers : timers[i].state \in {"waiting", "running", "calling"}

C6_TrailingEdge == ~early

(***************************************************************************)
(* C11.  Round trip: for every mapping M without the key content and every *)
(* body B, update_frontmatter applied with no updates to the document made *)
(* of the delimited YAML encoding of M and of B returns a text, and         *)
(* parse_frontmatter of that text returns exactly M with content = B.       *)
(***************************************************************************)
ValueOf(d, k) == d[CHOOSE i \in 1..Len(d) : d[i].key = k].value

MappingWith(d, body) ==
    [x \in DictKeys(d) \cup {"content"} |-> IF x = "content" THEN body ELSE ValueOf(d, x)]

C11_RoundTrip ==
    (updates = <<>> /\ updated # Pending) =>
        \A M \in DocDicts, B \in Bodies :
            content = Str(Header(M) \o B) =>
                /\ updated.state = "returned"
                /\ reparsed # Pending => reparsed = Returned(MappingWith(M, Str(B)))

(***************************************************************************)
(* C12.  update_frontmatter merges by key: for a document that              *)
(* parse_frontmatter accepts, the metadata block of the returned text holds *)
(* the keys of the document's metadata in their order, followed by the keys *)
(* that only the updates have, in the order of the updates; every key of    *)
(* the updates has the value of the updates and every other key its old     *)
(* value.                                                                   *)
(***************************************************************************)
\* the metadata parse_frontmatter finds in the document, in the order of its lines
Existing ==
    LET l == Normalize(content).lines
        y == YamlLoad(SubSeq(l, 2, ClosingLine(l) - 1))
    IN  IF FrontMatterMatch(l) /\ y.kind = "mapping" THEN y.items ELSE <<>>

Merged(existing, u) ==
    [i \in 1..Len(existing) |->
        IF existing[i].key \in DictKeys(u)
        THEN [key |-> existing[i].key, value |-> ValueOf(u, existing[i].key)]
        ELSE existing[i]]
    \o SelectSeq(u, LAMBDA it : it.key \notin DictKeys(existing))

\* the metadata block of a text that update_frontmatter returned, decoded
Written(text) == YamlLoad(SubSeq(text.lines, 2, ClosingLine(text.lines) - 1))

C12_MergeByKey ==
    (updated # Pending /\ parse_frontmatter(content).state = "returned") =>
        /\ updated.state = "returned"
        /\ Written(updated.rec).kind = "mapping"
        /\ Written(updated.rec).items = Merged(Existing, updates)

(***************************************************************************)
(* C13.  update_frontmatter leaves the body unchanged: the text after the   *)
(* closing delimiter of the text it returns is, character for character    *)
(* and line endings included, the body parse_frontmatter reports for the    *)
(* document (all of the document when it has no front matter).              *)
(***************************************************************************)
\* two texts are the same string: a text of one line has no line terminator
SameText(a, b) == a.lines = b.lines /\ (Len(a.lines) = 1 \/ a.eol = b.eol)

BodyOf(text) == Str(SubSeq(text.lines, ClosingLine(text.lines) + 1, Len(text.lines)))

C13_BodyUnchanged ==
    (updated.state = "returned" /\ parsed.state = "returned") =>
        SameText(BodyOf(updated.rec), parsed.rec.content)

(***************************************************************************)
(* C14.  Empty front matter: for every body B, parse_frontmatter of the    *)
(* document made of a --- line, a --- line and B returns a record with no  *)
(* metadata fields and content = B.                                        *)
(***************************************************************************)
C14_EmptyFrontMatter ==
    LET l == content.lines
    IN  (parsed # Pending /\ content.eol = "LF" /\ Len(l) >= 3
             /\ l[1] = "---" /\ l[2] = "---")
            => parsed = Returned([content |-> Str(SubSeq(l, 3, Len(l)))])

(***************************************************************************)
(* C15.  For every document whose first line is --- and that has a later   *)
(* --- line, parse_frontmatter takes the lines between the first such pair *)
(* as the metadata block and all the text after the closing line as the    *)
(* body, which is empty when the closing line is the last one.             *)
(***************************************************************************)
LaterDelimiters(l) == {i \in 2..Len(l) : l[i] = "---"}

FirstLater(l) == CHOOSE i \in LaterDelimiters(l) : \A x \in LaterDelimiters(l) : i <= x

\* the text after line i of a text that ends with line i or goes on after it
TextAfter(l, i) == IF i = Len(l) THEN Str(<<"">>) ELSE Str(SubSeq(l, i + 1, Len(l)))

C15_FirstPairDelimits ==
    LET l == content.lines
        i == FirstLater(l)
        y == YamlLoad(SubSeq(l, 2, i - 1))
    IN  (parsed # Pending /\ content.eol = "LF" /\ l[1] = "---"
             /\ LaterDelimiters(l) # {} /\ y.kind # "string")
            => parsed = Returned(IF y.kind = "mapping"
                                 THEN SetItem(y.map, "content", TextAfter(l, i))
                                 ELSE [content |-> TextAfter(l, i)])

(***************************************************************************)
(* C16.  parse_frontmatter is insensitive to the style of the line         *)
(* endings: the document written with CRLF or with CR gives the record     *)
(* that the document written with LF gives, with or without front matter.  *)
(***************************************************************************)
SameOutcome(a, b) ==
    /\ a.state = b.state
    /\ a.state = "returned" =>
           /\ DOMAIN a.rec = DOMAIN b.rec
           /\ \A k \in DOMAIN a.rec \ {"content"} : a.rec[k] = b.rec[k]
           /\ SameText(a.rec.content, b.rec.content)

C16_LineEndingInsensitive ==
    parsed # Pending => SameOutcome(parsed, parse_frontmatter(Normalize(content)))

(***************************************************************************)
(* C17.  In every mapping get_settings returns or stores in the cache,     *)
(* each env entry whose name contains KEY, TOKEN or SECRET in any case has  *)
(* the bullets as its value and every other entry has the value of the     *)
(* settings file: the value of a sensitive entry is never returned or      *)
(* cached.                                                                  *)
(***************************************************************************)
\* the names among EnvNames that contain one of the three words
SensitiveNames == {<<"API_", "KEY">>, <<"my", "Token">>}

MaskedAsClaimed(m, o) ==
    /\ DOMAIN m = DOMAIN o
    /\ \A x \in DOMAIN o \ {"env"} : m[x] = o[x]
    /\ "env" \in DOMAIN o =>
           /\ DOMAIN m["env"] = DOMAIN o["env"]
           /\ \A n \in DOMAIN o["env"] :
                  m["env"][n] = IF n \in SensitiveNames THEN "bullets8" ELSE o["env"][n]

SettingsGets == {t \in Gets : ret[t].key = "settings" /\ ret[t].kind \in {"hit", "miss"}}

C17_SensitiveMasked ==
    /\ \A t \in SettingsGets : MaskedAsClaimed(ret[t].value.data, fs.settings.object)
    /\ "settings" \in DOMAIN cache =>
           MaskedAsClaimed(cache["settings"].data, fs.settings.object)

\* a cached mapping is returned in which API_KEY and myToken are masked and
\* NORMAL_VAR is not, all three being secret123 in the file
C17_Witness ==
    \E t \in SettingsGets :
        /\ ret[t].kind = "hit"
        /\ fs.settings.object = [env |-> [n \in EnvNames |-> "secret123"]]
        /\ ret[t].value.data["env"][<<"my", "Token">>] = "bullets8"
        /\ ret[t].value.data["env"][<<"NORMAL_VAR">>] = "secret123"

(***************************************************************************)
(* C18.  get_settings fails softly: it returns an empty mapping when        *)
(* settings.json is absent and a mapping whose only key is error when the   *)
(* file is there but is not valid JSON; it raises in neither case.          *)
(***************************************************************************)
NotValidJson(file) == file.kind \in {"invalid", "undecodable"}

C18_SettingsSoftFail ==
    \A t \in Gets :
        ret[t].key = "settings" =>
            /\ fs.settings.kind = "absent" =>
                   (ret[t].kind # "raised" /\ ret[t].value.data = EmptyMapping)
            /\ NotValidJson(fs.settings) =>
                   (ret[t].kind # "raised" /\ DOMAIN ret[t].value.data = {"error"})

(***************************************************************************)
(* C19.  On every cache miss the accessor stores what it is about to       *)
(* return: when an accessor returns after a scan, the cache holds for its  *)
(* dataset the value it returns, with the time of the call as timestamp,   *)
(* whatever the scan produced (records, the empty result of an absent      *)
(* directory or file, the error mapping of settings).                      *)
(***************************************************************************)
ReturnsAfterMiss(t) ==
    /\ ret'[t] # ret[t]
    /\ ret'[t].op = "get"
    /\ ret'[t].scanned
    /\ ret'[t].kind # "raised"

C19_MissStores ==
    [][\A t \in Threads :
          ReturnsAfterMiss(t) =>
              /\ ret'[t].key \in DOMAIN cache'
              /\ cache'[ret'[t].key] = ret'[t].value
              /\ cache_timestamps'[ret'[t].key] = now']_vars

(***************************************************************************)
(* C20.  Every writer of a watched file invalidates the cache after the    *)
(* write and before it posts ConfigChanged, so the refresh of the screen   *)
(* that handles the message of a writer never shows data read from the     *)
(* filesystem before that write.                                           *)
(***************************************************************************)
C20_WriterInvalidates ==
    (handling.src = "writer" /\ ret[UiThread].op = "get") =>
        ret[UiThread].value.ver >= handling.ver

(***************************************************************************)
(* C28.  The metadata block update_frontmatter writes holds no YAML end of *)
(* document marker and decodes to exactly the merged mapping: removing a   *)
(* trailing '...' never removes characters of a key or of a value, also    *)
(* when the last value of the merged mapping ends in three dots.           *)
(***************************************************************************)
\* the lines between the delimiters of a text that update_frontmatter returned
BlockOf(text) == SubSeq(text.lines, 2, ClosingLine(text.lines) - 1)

C28_StripsOnlyMarker ==
    (updated # Pending /\ updated.state = "returned") =>
        /\ \A i \in 1..Len(BlockOf(updated.rec)) : BlockOf(updated.rec)[i] # "..."
        /\ YamlLoad(BlockOf(updated.rec)).kind = "mapping"
        /\ YamlLoad(BlockOf(updated.rec)).items = Merged(Existing, updates)

(***************************************************************************)
(* C23.  stop() prevents future scheduling: once stop() has returned, no   *)
(* notification starts a debounce timer, whether or not a timer was        *)
(* pending when stop() was called.                                         *)
(***************************************************************************)
C23_StopPreventsScheduling == [][stopped => Len(timers') = Len(timers)]_vars

(***************************************************************************)
(* C29.  At most one debounce timer is outstanding in every reachable      *)
(* state: at most one started timer has neither been cancelled nor run the *)
(* function it was started with, _run_callback, which resets _pending and  *)
(* _timer under the lock.                                                  *)
(***************************************************************************)
OutstandingTimers == {i \in DOMAIN timers : timers[i].state \in {"waiting", "running"}}

CompleteScan(k, v) ==
    /\ v.obj \in 1..nobj
    /\ \E f \in FsStates : Scan(k, f).kind = "found" /\ Scan(k, f).data = v.data

C26_CacheWellFormed ==
    /\ DOMAIN cache = DOMAIN cache_timestamps
    /\ \A k \in DOMAIN cache : CompleteScan(k, cache[k])
    /\ \A t \in Gets : ~ret[t].scanned => CompleteScan(ret[t].key, ret[t].value)

\* one thread returns the cached agents while the other holds the result of
\* a scan it has not stored yet, after an invalidation
C26_Witness ==
    /\ inval.done
    /\ \E t, u \in Threads :
           /\ t # u
           /\ ret[t].op = "get" /\ ~ret[t].scanned
           /\ pc[u] = "store"

(***************************************************************************)
(* C30.  An accessor touches only the entry of its own dataset: a step of  *)
(* get_agents, get_skills or get_settings leaves the value and the         *)
(* timestamp of the other datasets as they are, an expired entry stays in  *)
(* the maps until the accessor of its dataset overwrites it, and only      *)
(* invalidate_cache removes entries.                                       *)
(***************************************************************************)
\* the step is _set_cached of dataset k
Stores(k) == \E t \in Threads : pc[t] = "store" /\ param[t] = k /\ pc'[t] = "idle"

\* the step belongs to a call of an accessor
AccessorStep == pc' # pc \/ ret' # ret

\* the step takes an entry out of one of the two maps
Removes ==
    \/ ~(DOMAIN cache \subseteq DOMAIN cache')
    \/ ~(DOMAIN cache_timestamps \subseteq DOMAIN cache_timestamps')

C30_AccessorFrame ==
    [][/\ AccessorStep =>
              /\ ~Removes
              /\ \A k \in DOMAIN cache :
                     (cache'[k] # cache[k] \/ cache_timestamps'[k] # cache_timestamps[k])
                         => Stores(k)
       /\ Removes =>
              /\ ~AccessorStep
              /\ inval'.done /\ inval'.dropped = cache_timestamps]_vars

\* the entry of agents has expired and is still in the maps after skills
\* was scanned and stored
C30_Witness ==
    /\ "agents" \in DOMAIN cache
    /\ ~Valid(cache_timestamps["agents"], now)
    /\ "skills" \in DOMAIN cache
    /\ cache_timestamps["skills"] > cache_timestamps["agents"]

(***************************************************************************)
(* C24.  A notification schedules the debounced callback if and only if    *)
(* its path ends in .md or .json, whatever the kind of change: while       *)
(* stop() has not been called, a notification of a creation, modification, *)
(* deletion or move of such a path leaves a callback pending, and one of   *)
(* any other path changes nothing of the timer.                            *)
(***************************************************************************)
\* the step is the receipt of a notification with a watched path
ReceivesWatched == notified'.watched > notified.watched \/ ignored'.watched > ignored.watched

\* the step is the receipt of a notification with another path
ReceivesOther == notified'.other > notified.other \/ ignored'.other > ignored.other

C24_AnyKindSchedules ==
    [][~stopped =>
          /\ ReceivesWatched => w_pending'
          /\ ReceivesOther => UNCHANGED <<w_pending, w_timer, timers>>]_vars

C21_NoCallbackAfterUnmount ==
    [][unmounted => (callbacks' = callbacks /\ messages' = messages)]_vars

(***************************************************************************)
(* C22.  on_unmount follows a fixed protocol: on an observer that is held  *)
(* and alive it calls stop() and then join with a timeout of 5.0 seconds,  *)
(* in that order, as far as no call raises; on a dead observer it calls    *)
(* neither; in every case, also when a call raises, the application holds  *)
(* no observer afterwards and on_unmount raises nothing.                   *)
(***************************************************************************)
CallsOf(op) == {i \in 1..Len(teardown.calls) : teardown.calls[i].op = op}

C22_TeardownProtocol ==
    unmounted =>
        /\ observer = "none"
        /\ ~teardown.raised
        /\ ~(teardown.held /\ teardown.alive) => (CallsOf("stop") = {} /\ CallsOf("join") = {})
        /\ Cardinality(CallsOf("stop")) <= 1 /\ Cardinality(CallsOf("join")) <= 1
        /\ \A i \in CallsOf("join") :
               /\ teardown.calls[i].timeout = 5
               /\ i - 1 \in CallsOf("stop")
        /\ (teardown.held /\ teardown.alive /\ teardown.fault.at # 1)
               => CallsOf("stop") # {}
        /\ (teardown.held /\ teardown.alive /\ teardown.fault.at \notin {1, 2})
               => CallsOf("join") # {}

\* stop() raised on a running observer: join was not called, the observer is dropped
C22_Witness ==
    /\ unmounted
    /\ teardown.held /\ teardown.alive
    /\ teardown.fault.at = 2
    /\ observer = "none"

(***************************************************************************)
(* C27.  The Edit button of the agent detail modal: for an agent with a    *)
(* path it pops the modal once, suspends the application, never calls      *)
(* app.exit() and opens the editor on exactly that path; for an agent       *)
(* without a path it only shows an error notification.                      *)
(***************************************************************************)
ModalCalls(call) == {i \in 1..Len(modal_calls) : modal_calls[i].call = call}

C27_EditSuspends ==
    pressed = "None" =>
        IF "path" \in DOMAIN agent_data
        THEN /\ Cardinality(ModalCalls("pop_screen")) = 1
             /\ ModalCalls("suspend") # {}
             /\ ModalCalls("exit") = {}
             /\ Cardinality(ModalCalls("open_editor")) = 1
             /\ \A i \in ModalCalls("open_editor") : modal_calls[i].arg = agent_data["path"]
        ELSE modal_calls = <<[call |-> "notify", arg |-> "error"]>>

====
